---- MODULE Spec2Model ----
(***************************************************************************)
(* NGO-InvoiceFiler: the document integrity and lifecycle engine.          *)
(*                                                                         *)
(*   filing.py     FilingSystem, ApprovalWorkflow                          *)
(*   ledger.py     LedgerManager                                           *)
(*   validator.py  ValidationEngine                                        *)
(*   main.py       InvoiceFilerOrchestrator                                *)
(*                                                                         *)
(* Conventions.                                                            *)
(*  - A Python string that the code splits, joins or sanitizes is a        *)
(*    sequence of elements; "_", ".", " ", "-" and "/" are one-character   *)
(*    elements, every other element is a run of word characters that holds *)
(*    none of them.                                                        *)
(*  - An Optional value is a sequence of length at most one: <<>> is None, *)
(*    <<v>> is the value v.                                                *)
(*  - Amounts are integers in hundredths of a currency unit.               *)
(***************************************************************************)
EXTENDS Integers, Sequences, FiniteSets, TLC

\* ------------------------------------------------------------------ bounds
MaxTime == 1
MaxFlags == 2
MaxDocs == 2
MaxLedgerDocs == 2
MaxExisting == 2
MaxApprovals == 1
MaxThreads == 2
MaxNameLen == 3

\* ------------------------------------------------------- optional values
None == <<>>
Some(v) == <<v>>

\* Python truthiness of an Optional[str]: None and the empty string are falsy.
\* TruthyStr is for values kept as TLA+ strings, TruthyName for values kept as
\* sequences of elements.
TruthyStr_NoneOnly(o) == o # None
TruthyStr(o) == o # None /\ o[1] # ""
TruthyName(o) == o # None /\ Len(o[1]) > 0

\* --------------------------------------------------------------- schemas
DRAFT == "draft"
NEEDS_REVIEW == "needs_review"
APPROVED == "approved"
POSTED == "posted"
Status == {DRAFT, NEEDS_REVIEW, APPROVED, POSTED}

LOW == "low"
MEDIUM == "medium"
HIGH == "high"
FlagSeverity == {LOW, MEDIUM, HIGH}

\* Status.value, as the elements of the string
StatusValue(s) ==
    IF s = NEEDS_REVIEW THEN <<"needs", "_", "review">> ELSE <<s>>

\* ------------------------------------------------------- string helpers
\* "__".join(parts)
RECURSIVE JoinDU(_)
JoinDU(parts) ==
    IF Len(parts) = 0 THEN <<>>
    ELSE IF Len(parts) = 1 THEN parts[1]
    ELSE parts[1] \o <<"_", "_">> \o JoinDU(Tail(parts))

\* s.split('__'): leftmost, non-overlapping occurrences of the separator
RECURSIVE SplitFrom(_, _, _, _)
SplitFrom(s, i, cur, acc) ==
    IF i > Len(s) THEN Append(acc, cur)
    ELSE IF i < Len(s) /\ s[i] = "_" /\ s[i + 1] = "_"
         THEN SplitFrom(s, i + 2, <<>>, Append(acc, cur))
         ELSE SplitFrom(s, i + 1, Append(cur, s[i]), acc)

SplitDU(s) == SplitFrom(s, 1, <<>>, <<>>)

\* s.rsplit('.', 1)
RSplitDot(s) ==
    LET dots == {i \in 1..Len(s) : s[i] = "."}
    IN  IF dots = {} THEN <<s>>
        ELSE LET k == CHOOSE i \in dots : \A j \in dots : j <= i
             IN  <<SubSeq(s, 1, k - 1), SubSeq(s, k + 1, Len(s))>>

\* ---------------------------------------------------------- FilingSystem
\* lower() on one word run (the inputs of the model carry no diacritics)
FoldWord(e) ==
    CASE e = "Acme" -> "acme"
      [] e = "Corp" -> "corp"
      [] e = "INV" -> "inv"
      [] e = "Unknown" -> "unknown"
      [] e = "Vendor" -> "vendor"
      [] e = "Tel" -> "tel"
      [] e = "Aviv" -> "aviv"
      [] OTHER -> e

\* FilingSystem._sanitize_name: spaces become underscores, every other
\* non-word character is removed, the rest is folded to lower case
RECURSIVE _sanitize_name(_)
_sanitize_name(name) ==
    IF Len(name) = 0 THEN <<>>
    ELSE LET e == Head(name)
             rest == _sanitize_name(Tail(name))
         IN  IF e = " " THEN <<"_">> \o rest
             ELSE IF e \in {"-", "/", "."} THEN rest
             ELSE <<FoldWord(e)>> \o rest

\* FilingSystem._truncate_name (the length of a name is its number of elements)
_truncate_name(name, max_len) ==
    IF Len(name) <= max_len THEN name ELSE SubSeq(name, 1, max_len)

VendorMaxLen == 30
InvoiceMaxLen == 20

Pad(n, width) ==
    IF width = 4 THEN ToString(n)
    ELSE IF n < 10 THEN "0" \o ToString(n) ELSE ToString(n)

\* date.strftime('%Y-%m-%d')
StrfDate(d) == <<Pad(d.year, 4), "-", Pad(d.month, 2), "-", Pad(d.day, 2)>>

\* int(amount) for an amount in hundredths: truncation toward zero
IntPart(cents) == IF cents >= 0 THEN cents \div 100 ELSE -((-cents) \div 100)

\* FilingSystem._build_file_name
_build_file_name(issue_date, vendor_name, invoice_num, project_code, grant_code, amount, currency, status, original_extension) ==
    LET parts == <<
            StrfDate(issue_date),
            _truncate_name(_sanitize_name(vendor_name), VendorMaxLen),
            IF TruthyName(invoice_num)
               THEN _truncate_name(_sanitize_name(invoice_num[1]), InvoiceMaxLen)
               ELSE <<"NOREF">>,
            IF TruthyName(project_code) THEN project_code[1] ELSE <<"NOPROJ">>,
            IF TruthyName(grant_code) THEN grant_code[1] ELSE <<"NOGRANT">>,
            <<ToString(IntPart(amount)) \o currency>>,
            StatusValue(status) >>
    IN  JoinDU(parts) \o original_extension

\* an initial status that only HIGH flags send to review
_determine_initial_status_HighOnly(flags) ==
    IF Len(flags) = 0 THEN DRAFT
    ELSE LET severities == {flags[i].severity : i \in 1..Len(flags)}
         IN  IF HIGH \in severities THEN NEEDS_REVIEW ELSE DRAFT

\* FilingSystem._determine_initial_status
_determine_initial_status(flags) ==
    IF Len(flags) = 0 THEN DRAFT
    ELSE LET severities == {flags[i].severity : i \in 1..Len(flags)}
         IN  IF HIGH \in severities THEN NEEDS_REVIEW
             ELSE IF MEDIUM \in severities THEN NEEDS_REVIEW
             ELSE DRAFT

\* ------------------------------------------------------ ValidationEngine
UNIQUE == "unique"
DUPLICATE == "duplicate"
SUSPECTED_DUPLICATE == "suspected_duplicate"
DedupeStatus == {UNIQUE, DUPLICATE, SUSPECTED_DUPLICATE}

\* ValidationFlag (the message text is left out)
ValidationFlag(type, severity, field) ==
    [type |-> type, severity |-> severity, field |-> field]

Abs(x) == IF x < 0 THEN -x ELSE x

RECURSIVE SumSeq(_)
SumSeq(q) == IF Len(q) = 0 THEN 0 ELSE Head(q) + SumSeq(Tail(q))

\* `x or 0.0` on an Optional amount
OrZero(o) == IF o = None THEN 0 ELSE o[1]

\* ValidationEngine.EPSILON, in hundredths
EPSILON == 2

\* diff > EPSILON on binary floats: the amounts are decimal fractions, so a
\* difference of exactly EPSILON hundredths is computed a few ulps above or
\* below 0.02, depending on the magnitudes; fp_above is that outcome
ExceedsEpsilon(diff, fp_above) == diff > EPSILON \/ (diff = EPSILON /\ fp_above)

\* ValidationEngine._validate_math: the flags it appends
_validate_math(p, fp_above) ==
    LET computed_total == p.subtotal + p.tax_amount + OrZero(p.shipping) - OrZero(p.discount)
        diff == Abs(computed_total - p.grand_total)
        lines_sum == SumSeq(p.line_totals)
        total_flag == IF ExceedsEpsilon(diff, fp_above)
                         THEN <<ValidationFlag("math_mismatch", HIGH, "totals.grand_total")>>
                         ELSE <<>>
        lines_flag == IF Len(p.line_totals) > 0 /\ lines_sum > 0
                         /\ ExceedsEpsilon(Abs(lines_sum - p.subtotal), fp_above)
                         THEN <<ValidationFlag("math_mismatch", MEDIUM, "totals.subtotal")>>
                         ELSE <<>>
    IN  [flags |-> total_flag \o lines_flag, audit |-> <<"validate_math">>]

\* date < date
DateLess(a, b) ==
    \/ a.year < b.year
    \/ a.year = b.year /\ a.month < b.month
    \/ a.year = b.year /\ a.month = b.month /\ a.day < b.day

IsLeap(y) == (y % 4 = 0 /\ y % 100 # 0) \/ y % 400 = 0

DaysBeforeMonth(y, m) ==
    LET cumulative == <<0, 31, 59, 90, 120, 151, 181, 212, 243, 273, 304, 334>>
    IN  cumulative[m] + (IF m > 2 /\ IsLeap(y) THEN 1 ELSE 0)

\* date.toordinal()
Ordinal(d) ==
    LET y == d.year - 1
    IN  y * 365 + (y \div 4) - (y \div 100) + (y \div 400)
        + DaysBeforeMonth(d.year, d.month) + d.day

\* the stale-date threshold of _validate_dates, in days
StaleDays == 730

\* date.today()
Today == [year |-> 2026, month |-> 11, day |-> 2]

\* a date check that also flags a due date equal to the issue date
_validate_dates_NotAfter(p) ==
    LET order_flag == IF p.issue_date # None /\ p.due_date # None
                         /\ ~DateLess(p.issue_date[1], p.due_date[1])
                         THEN <<ValidationFlag("suspicious_date", HIGH, "dates.due_date")>>
                         ELSE <<>>
    IN  IF p.issue_date # None
           THEN [flags |-> order_flag \o
                    (IF Abs(Ordinal(p.issue_date[1]) - Ordinal(Today)) > StaleDays
                        THEN <<ValidationFlag("suspicious_date", MEDIUM, "dates.issue_date")>>
                        ELSE <<>>),
                 audit |-> <<"validate_dates">>]
           ELSE [flags |-> order_flag \o
                    <<ValidationFlag("missing_field", MEDIUM, "dates.issue_date")>>,
                 audit |-> <<>>]

\* ValidationEngine._validate_dates
_validate_dates(p) ==
    LET order_flag == IF p.issue_date # None /\ p.due_date # None
                         /\ DateLess(p.due_date[1], p.issue_date[1])
                         THEN <<ValidationFlag("suspicious_date", HIGH, "dates.due_date")>>
                         ELSE <<>>
    IN  IF p.issue_date # None
           THEN [flags |-> order_flag \o
                    (IF Abs(Ordinal(p.issue_date[1]) - Ordinal(Today)) > StaleDays
                        THEN <<ValidationFlag("suspicious_date", MEDIUM, "dates.issue_date")>>
                        ELSE <<>>),
                 audit |-> <<"validate_dates">>]
           ELSE [flags |-> order_flag \o
                    <<ValidationFlag("missing_field", MEDIUM, "dates.issue_date")>>,
                 audit |-> <<>>]

\* org_profile.vat_rules of create_default_org_profile, in hundredths of a percent
vat_rules == [ILS |-> 1700, EUR |-> 2000, GBP |-> 2000]

\* ValidationEngine._validate_tax: rates are in hundredths of a percent, and
\* |tax/subtotal*100 - rate| > t is compared after multiplying by subtotal
_validate_tax(p) ==
    IF p.tax_amount > 0 /\ p.subtotal > 0
       THEN LET stated_flag ==
                    IF p.tax_rate # None /\ p.tax_rate[1] # 0
                       /\ Abs(p.tax_amount * 10000 - p.tax_rate[1] * p.subtotal) > 50 * p.subtotal
                       THEN <<ValidationFlag("tax_anomaly", MEDIUM, "totals.tax_rate")>>
                       ELSE <<>>
                expected_flag ==
                    IF p.currency \in DOMAIN vat_rules
                       /\ Abs(p.tax_amount * 10000 - vat_rules[p.currency] * p.subtotal) > 100 * p.subtotal
                       THEN <<ValidationFlag("tax_anomaly", LOW, "totals.tax_amount")>>
                       ELSE <<>>
            IN  [flags |-> stated_flag \o expected_flag, audit |-> <<"validate_tax">>]
       ELSE [flags |-> <<>>, audit |-> <<>>]

valid_currencies ==
    {"USD", "EUR", "GBP", "JPY", "CHF", "CAD", "AUD", "NZD",
     "ILS", "INR", "CNY", "KRW", "SGD", "HKD", "THB", "MXN",
     "BRL", "ZAR", "RUB", "TRY", "SEK", "NOK", "DKK", "PLN"}

\* ValidationEngine._validate_currency
_validate_currency(p) ==
    [flags |-> IF p.currency \notin valid_currencies
                  THEN <<ValidationFlag("currency_mismatch", MEDIUM, "currency")>>
                  ELSE <<>>,
     audit |-> <<"validate_currency">>]

\* ValidationEngine._validate_vendor
_validate_vendor(p) ==
    [flags |-> (IF Len(p.vendor) = 0 \/ p.vendor = <<"Unknown", " ", "Vendor">>
                   THEN <<ValidationFlag("missing_field", HIGH, "vendor.display_name")>>
                   ELSE <<>>)
               \o (IF ~p.vendor_contact
                   THEN <<ValidationFlag("vendor_mismatch", LOW, "vendor")>>
                   ELSE <<>>),
     audit |-> <<>>]

\* doc.get(key) on an existing record: an absent key reads as None
Get(d, key) == IF key \in DOMAIN d THEN Some(d[key]) ELSE None

\* a duplicate check that looks at the fingerprint first
_check_duplicate_FingerprintFirst(existing_docs, checksum, fingerprint) ==
    IF \E i \in 1..Len(existing_docs) : Get(existing_docs[i], "doc_fingerprint") = Some(fingerprint)
       THEN [flags |-> <<ValidationFlag("duplicate", HIGH, "validation.doc_fingerprint")>>,
             status |-> SUSPECTED_DUPLICATE]
    ELSE IF \E i \in 1..Len(existing_docs) : Get(existing_docs[i], "checksum_sha256") = Some(checksum)
       THEN [flags |-> <<ValidationFlag("duplicate", HIGH, "validation.checksum_sha256")>>,
             status |-> DUPLICATE]
    ELSE [flags |-> <<>>, status |-> UNIQUE]

\* ValidationEngine._check_duplicate
_check_duplicate(existing_docs, checksum, fingerprint) ==
    IF \E i \in 1..Len(existing_docs) : Get(existing_docs[i], "checksum_sha256") = Some(checksum)
       THEN [flags |-> <<ValidationFlag("duplicate", HIGH, "validation.checksum_sha256")>>,
             status |-> DUPLICATE]
    ELSE IF \E i \in 1..Len(existing_docs) : Get(existing_docs[i], "doc_fingerprint") = Some(fingerprint)
       THEN [flags |-> <<ValidationFlag("duplicate", HIGH, "validation.doc_fingerprint")>>,
             status |-> SUSPECTED_DUPLICATE]
    ELSE [flags |-> <<>>, status |-> UNIQUE]

\* the OCR confidence threshold of validate, in hundredths
OcrThreshold == 75

\* the penalties of _compute_confidence_score, in hundredths
HighPenalty == 15
MediumPenalty == 5

\* the number of required fields of _compute_confidence_score that are truthy
FieldsPresent(p) ==
    (IF Len(p.vendor) > 0 THEN 1 ELSE 0) + (IF p.issue_date # None THEN 1 ELSE 0)
    + (IF p.grand_total # 0 THEN 1 ELSE 0) + (IF p.currency # "" THEN 1 ELSE 0)

SeverityCount(flags, severity) ==
    Cardinality({i \in 1..Len(flags) : flags[i].severity = severity})

\* round(x, 2) of a value in four-hundredths, in hundredths: a value halfway
\* between two hundredths goes up or down with the binary float it is held
\* in; round_up is that outcome
Round2(quarters, round_up) ==
    LET q == quarters \div 4
        r == quarters % 4
    IN  IF r > 2 \/ (r = 2 /\ round_up) THEN q + 1 ELSE q

\* a score that is not held at zero
_compute_confidence_score_NoFloor(p, flags, round_up) ==
    LET quarters == p.confidence * FieldsPresent(p)
                    - 4 * (SeverityCount(flags, HIGH) * HighPenalty
                           + SeverityCount(flags, MEDIUM) * MediumPenalty)
    IN  Round2(IF quarters > 400 THEN 400 ELSE quarters, round_up)

\* ValidationEngine._compute_confidence_score, in hundredths: the confidence
\* is in hundredths and completeness in quarters, so base_score * completeness
\* - penalty is a number of four-hundredths
_compute_confidence_score(p, flags, round_up) ==
    LET quarters == p.confidence * FieldsPresent(p)
                    - 4 * (SeverityCount(flags, HIGH) * HighPenalty
                           + SeverityCount(flags, MEDIUM) * MediumPenalty)
        final_score == IF quarters < 0 THEN 0 ELSE IF quarters > 400 THEN 400 ELSE quarters
    IN  Round2(final_score, round_up)

\* ValidationEngine.validate: the result dict (self.flags and
\* self.audit_entries are reset and then returned in it)
validate(existing_docs, p, checksum, fingerprint, fp_above, round_up) ==
    LET math == _validate_math(p, fp_above)
        dates == _validate_dates(p)
        tax == _validate_tax(p)
        cur == _validate_currency(p)
        ven == _validate_vendor(p)
        dup == _check_duplicate(existing_docs, checksum, fingerprint)
        ocr == IF p.confidence < OcrThreshold
                  THEN <<ValidationFlag("ocr_low_confidence", MEDIUM, "confidence")>>
                  ELSE <<>>
        flags == math.flags \o dates.flags \o tax.flags \o cur.flags
                 \o ven.flags \o dup.flags \o ocr
    IN  [checksum_sha256 |-> checksum,
         doc_fingerprint |-> fingerprint,
         dedupe_status |-> dup.status,
         score_confidence |-> _compute_confidence_score(p, flags, round_up),
         flags |-> flags,
         audit_log |-> math.audit \o dates.audit \o tax.audit \o cur.audit
                       \o ven.audit \o <<"validate">>]

\* ------------------------------------------------------ ApprovalWorkflow
\* a table that also lets a draft be posted directly
TRANSITIONS_DraftPosts ==
    [s \in Status |->
        CASE s = DRAFT -> {NEEDS_REVIEW, APPROVED, POSTED}
          [] s = NEEDS_REVIEW -> {DRAFT, APPROVED}
          [] s = APPROVED -> {POSTED}
          [] s = POSTED -> {}]

\* a table that lets an approved document go back to review
TRANSITIONS_ApprovedReturns ==
    [s \in Status |->
        CASE s = DRAFT -> {NEEDS_REVIEW, APPROVED}
          [] s = NEEDS_REVIEW -> {DRAFT, APPROVED}
          [] s = APPROVED -> {POSTED, NEEDS_REVIEW}
          [] s = POSTED -> {}]

\* a table that lets a posted document be reopened
TRANSITIONS_PostedReopens ==
    [s \in Status |->
        CASE s = DRAFT -> {NEEDS_REVIEW, APPROVED}
          [] s = NEEDS_REVIEW -> {DRAFT, APPROVED}
          [] s = APPROVED -> {POSTED}
          [] s = POSTED -> {DRAFT}]

\* ApprovalWorkflow.TRANSITIONS
TRANSITIONS ==
    [s \in Status |->
        CASE s = DRAFT -> {NEEDS_REVIEW, APPROVED}
          [] s = NEEDS_REVIEW -> {DRAFT, APPROVED}
          [] s = APPROVED -> {POSTED}
          [] s = POSTED -> {}]

\* ApprovalWorkflow.can_transition
can_transition(current, target) == target \in TRANSITIONS[current]

\* an update that loses the extension
_update_filename_status_DropsExtension(file_name, new_status) ==
    LET name_parts == SplitDU(RSplitDot(file_name)[1])
    IN  JoinDU(IF Len(name_parts) >= 2
                  THEN [name_parts EXCEPT ![Len(name_parts)] = StatusValue(new_status)]
                  ELSE name_parts)

\* ApprovalWorkflow._update_filename_status
_update_filename_status(file_name, new_status) ==
    LET parts == RSplitDot(file_name)
        name_parts == SplitDU(parts[1])
        replaced == IF Len(name_parts) >= 2
                       THEN [name_parts EXCEPT ![Len(name_parts)] = StatusValue(new_status)]
                       ELSE name_parts
        new_name == JoinDU(replaced)
    IN  IF Len(parts) > 1 THEN new_name \o <<".">> \o parts[2] ELSE new_name

\* dict.get(key) on a filing_info for a key holding a boolean: an absent key
\* reads as None, which is falsy
GetFlag(d, key) == key \in DOMAIN d /\ d[key]

\* ApprovalWorkflow.transition: the filing_info dict is mutated in place, so
\* the dict a raised ValueError leaves behind carries the assignments made
\* before the raise.  Result: the dict afterwards and how the call ended.
transition(filing_info_in, new_status, approver, now) ==
    LET current_status == filing_info_in.status
        with_status == [filing_info_in EXCEPT !.status = new_status]
        with_approver == IF new_status = APPROVED
                            THEN [with_status EXCEPT !.approver = approver,
                                                     !.approved_at = Some(now)]
                            ELSE with_status
    IN  IF ~can_transition(current_status, new_status)
           THEN [info |-> filing_info_in, outcome |-> "invalid_transition"]
        ELSE IF new_status = POSTED /\ GetFlag(filing_info_in, "has_high_severity_flags")
           THEN [info |-> filing_info_in, outcome |-> "high_severity_flags"]
        ELSE IF new_status = APPROVED /\ ~TruthyStr(approver)
           THEN [info |-> with_status, outcome |-> "approver_required"]
        ELSE [info |-> [with_approver EXCEPT !.file_name =
                            _update_filename_status(with_approver.file_name, new_status)],
              outcome |-> "ok"]

\* ------------------------------------------------------- DocumentHasher
\* re.sub(r'\W+', '', name.lower()), as one string
RECURSIVE NormWord(_)
NormWord(name) ==
    IF Len(name) = 0 THEN ""
    ELSE IF Head(name) \in {" ", "-", "/", "."} THEN NormWord(Tail(name))
    ELSE FoldWord(Head(name)) \o NormWord(Tail(name))

\* the amount truncated to its whole units
AmountDigits_Truncated(cents) == ToString(cents \div 100)

\* f"{amount:.2f}".replace('.', '') for an amount >= 0 in hundredths
AmountDigits(cents) == ToString(cents \div 100) \o Pad(cents % 100, 2)

\* DocumentHasher.compute_fingerprint: the string that is hashed (the md5
\* digest is taken to be injective on the strings of the model)
compute_fingerprint(vendor, date, invoice_num, amount) ==
    LET vendor_norm == NormWord(vendor)
        date_str == IF date # None
                       THEN Pad(date[1].year, 4) \o Pad(date[1].month, 2) \o Pad(date[1].day, 2)
                       ELSE "NODATE"
        inv_str == IF TruthyName(invoice_num) THEN NormWord(invoice_num[1]) ELSE "NOINV"
    IN  vendor_norm \o "_" \o date_str \o "_" \o inv_str \o "_" \o AmountDigits(amount)

\* ---------------------------------------------------------- NGOClassifier
\* org_profile.fiscal_year_start_month of create_default_org_profile
fiscal_year_start_month == 1

\* a fiscal year that the start month itself does not yet begin
_get_fiscal_year_AfterStart(date_obj, fy_start_month) ==
    IF date_obj.month <= fy_start_month
       THEN ToString(date_obj.year - 1) \o "-" \o ToString(date_obj.year)
       ELSE ToString(date_obj.year) \o "-" \o ToString(date_obj.year + 1)

\* ValidationEngine._get_fiscal_year
_get_fiscal_year(date_obj, fy_start_month) ==
    IF date_obj.month < fy_start_month
       THEN ToString(date_obj.year - 1) \o "-" \o ToString(date_obj.year)
       ELSE ToString(date_obj.year) \o "-" \o ToString(date_obj.year + 1)

\* the grant codes org_profile.grant_dictionary marks restricted
RestrictedGrants == {<<"GR2023">>, <<"GR2024">>}

\* NGOClassifier._determine_fund_type
_determine_fund_type(grant_code) ==
    IF TruthyName(grant_code) /\ grant_code[1] \in RestrictedGrants
       THEN "restricted" ELSE "unrestricted"

\* NGOClassifier.classify: the codes come from the user hints (the line items
\* of the model carry no codes and no categories)
classify(p, user_hints) ==
    [project_code |-> IF TruthyName(user_hints.project_code) THEN user_hints.project_code ELSE None,
     grant_code |-> IF TruthyName(user_hints.grant_code) THEN user_hints.grant_code ELSE None,
     fund_type |-> _determine_fund_type(user_hints.grant_code),
     fiscal_year |-> _get_fiscal_year(IF p.issue_date # None THEN p.issue_date[1] ELSE Today,
                                      fiscal_year_start_month)]

\* ---------------------------------------------------------- LedgerManager
\* date.isoformat()
IsoFormat(d) == Pad(d.year, 4) \o "-" \o Pad(d.month, 2) \o "-" \o Pad(d.day, 2)

\* LedgerManager._create_ledger_row and LedgerRow.to_dict (file_path and
\* category_primary are left out)
_create_ledger_row(doc) ==
    [doc_id |-> doc.doc_id,
     issue_date |-> IF doc.parsed.issue_date # None THEN Some(IsoFormat(doc.parsed.issue_date[1])) ELSE None,
     due_date |-> IF doc.parsed.due_date # None THEN Some(IsoFormat(doc.parsed.due_date[1])) ELSE None,
     vendor |-> doc.parsed.vendor,
     invoice_number |-> doc.parsed.invoice,
     currency |-> doc.parsed.currency,
     subtotal |-> doc.parsed.subtotal,
     tax_amount |-> doc.parsed.tax_amount,
     grand_total |-> doc.parsed.grand_total,
     project_code |-> doc.ngo_context.project_code,
     grant_code |-> doc.ngo_context.grant_code,
     fund_type |-> doc.ngo_context.fund_type,
     status |-> doc.filing.status,
     fiscal_year |-> doc.ngo_context.fiscal_year,
     file_name |-> doc.filing.file_name,
     dedupe_status |-> doc.validation.dedupe_status,
     approver |-> doc.filing.approver,
     approved_at |-> doc.filing.approved_at]

\* the index of the first row with the doc_id, 0 when there is none
ExistingIdx(rows, doc_id) ==
    LET hits == {i \in 1..Len(rows) : rows[i].doc_id = doc_id}
    IN  IF hits = {} THEN 0 ELSE CHOOSE i \in hits : \A j \in hits : i <= j

\* a ledger that appends every row
add_entry_AlwaysAppends(rows, doc) == Append(rows, _create_ledger_row(doc))

\* a ledger that moves a replaced row to the end
add_entry_MovesToEnd(rows, doc) ==
    LET keep == {i \in 1..Len(rows) : rows[i].doc_id # doc.doc_id}
        F[i \in 0..Len(rows)] ==
            IF i = 0 THEN <<>>
            ELSE IF i \in keep THEN Append(F[i - 1], rows[i]) ELSE F[i - 1]
    IN  Append(F[Len(rows)], _create_ledger_row(doc))

\* LedgerManager.add_entry: self.ledger afterwards
add_entry(rows, doc) ==
    LET existing_idx == ExistingIdx(rows, doc.doc_id)
        row_dict == _create_ledger_row(doc)
    IN  IF existing_idx # 0 THEN [rows EXCEPT ![existing_idx] = row_dict]
        ELSE Append(rows, row_dict)

\* LedgerManager.get_all_entries
get_all_entries(rows) == rows

\* ----------------------------------------------------------------- state
VARIABLES
    filing,           \* Optional: the filing_info dict of the document in the workflow
    validation_flags, \* the flag list of the validation result it was generated from
    wf_call,          \* Optional: the last transition call, with the dict before it
    wf_result,        \* how the last transition call ended
    left,             \* the statuses the document has left by a successful transition
    validator,        \* the ValidationEngine: existing_docs, flags, audit_entries
    v_call,           \* Optional: the last validate call and its result
    ledger,           \* LedgerManager.ledger
    disk,             \* the rows in ledger.json
    ledger_call,      \* Optional: the last add_entry call, with the ledger before it
    last_added,       \* per doc_id, the document of the most recent add_entry
    next_id,          \* the number of doc_ids the orchestrator has handed out
    stored,           \* checksum and fingerprint of the documents stored by the pipeline
    result,           \* Optional: what the last process_document returned
    audit_trail,      \* the events in audit_trail.jsonl
    approval,         \* Optional: the last approve_document call and what it returned
    threads,          \* per request thread of the web server: where it is in its call
    call              \* Optional: the last call that reads or computes, and what it returned

vars == <<filing, validation_flags, wf_call, wf_result, left, validator, v_call,
          ledger, disk, ledger_call, last_added, next_id, stored, result,
          audit_trail, approval, threads, call>>

workflow_vars == <<filing, validation_flags, wf_call, wf_result, left>>
validator_vars == <<validator, v_call>>
ledger_vars == <<ledger, disk, ledger_call, last_added>>
pipeline_vars == <<next_id, stored, result>>
approval_vars == <<audit_trail, approval>>

\* ---------------------------------------------------------------- inputs
Severities == {LOW, MEDIUM, HIGH}

\* validation results differ, for filing, in the severities of their flags
Flag(sev) == ValidationFlag("vendor_mismatch", sev, "vendor")

RECURSIVE SeqsUpTo(_, _)
SeqsUpTo(S, n) ==
    IF n = 0 THEN {<<>>}
    ELSE LET shorter == SeqsUpTo(S, n - 1)
         IN  shorter \cup {Append(q, x) : q \in shorter, x \in S}

FlagLists == SeqsUpTo({Flag(sev) : sev \in Severities}, MaxFlags)

\* what the parser hands over for the documents of the model
CleanInvoice ==
    [vendor |-> <<"Acme", " ", "Corp">>, vendor_contact |-> TRUE,
     invoice |-> Some(<<"INV", "-", "001">>),
     issue_date |-> Some([year |-> 2026, month |-> 3, day |-> 15]),
     due_date |-> Some([year |-> 2026, month |-> 4, day |-> 14]),
     subtotal |-> 150000, tax_amount |-> 25500, tax_rate |-> Some(1700),
     shipping |-> None, discount |-> None, grand_total |-> 175500,
     line_totals |-> <<100000, 50000>>, currency |-> "ILS", confidence |-> 90]

\* a rescan of CleanInvoice: other bytes, the vendor and the invoice number
\* read with other case and punctuation, the contact details lost
RescannedInvoice ==
    [CleanInvoice EXCEPT !.vendor = <<"acme", "-", "corp", ".">>,
                         !.invoice = Some(<<"inv", "001">>),
                         !.vendor_contact = FALSE]

UndatedReceipt ==
    [vendor |-> <<"Unknown", " ", "Vendor">>, vendor_contact |-> FALSE,
     invoice |-> None, issue_date |-> None, due_date |-> None,
     subtotal |-> 99, tax_amount |-> 0, tax_rate |-> None,
     shipping |-> None, discount |-> None, grand_total |-> 99,
     line_totals |-> <<>>, currency |-> "XXX", confidence |-> 60]

OffByTwoInvoice ==
    [vendor |-> <<"Tel", "-", "Aviv", ".">>, vendor_contact |-> TRUE,
     invoice |-> Some(<<>>),
     issue_date |-> Some([year |-> 2025, month |-> 12, day |-> 1]),
     due_date |-> Some([year |-> 2025, month |-> 11, day |-> 1]),
     subtotal |-> 2000, tax_amount |-> 50, tax_rate |-> Some(1000),
     shipping |-> Some(100), discount |-> Some(98), grand_total |-> 2050,
     line_totals |-> <<2000>>, currency |-> "USD", confidence |-> 80]

NoHints == [project_code |-> None, grant_code |-> None]

\* the uploads: the bytes (named by their checksum), the magic bytes, what OCR
\* and parsing make of them, and the hints the user gives
Uploads == {
    [checksum |-> "sha-a", is_document |-> TRUE, parsed |-> CleanInvoice,
     hints |-> [project_code |-> Some(<<"EDU001">>), grant_code |-> Some(<<"GR2023">>)]],
    [checksum |-> "sha-b", is_document |-> TRUE, parsed |-> RescannedInvoice,
     hints |-> [project_code |-> Some(<<"EDU001">>), grant_code |-> Some(<<"GR2023">>)]],
    [checksum |-> "sha-c", is_document |-> TRUE, parsed |-> UndatedReceipt, hints |-> NoHints],
    [checksum |-> "sha-d", is_document |-> TRUE, parsed |-> OffByTwoInvoice,
     hints |-> [project_code |-> Some(<<"P", "_", "_", "1">>), grant_code |-> Some(<<"G", ".", "7">>)]],
    [checksum |-> "sha-e", is_document |-> FALSE, parsed |-> UndatedReceipt, hints |-> NoHints] }

ParsedDocuments == {u \in Uploads : u.is_document}

\* the uploads of the pipeline: Uploads and CleanInvoice with fifty hundredths
\* of shipping on top
PipelineUploads ==
    Uploads \cup {[checksum |-> "sha-f", is_document |-> TRUE,
                   parsed |-> [CleanInvoice EXCEPT !.shipping = Some(50),
                                                   !.grand_total = 175550],
                   hints |-> [project_code |-> Some(<<"EDU001">>),
                              grant_code |-> Some(<<"GR2023">>)]]}

\* the outcomes of the float comparisons of _validate_math on a document: they
\* go either way only at a difference of exactly EPSILON
MathOutcomes(p) ==
    IF Abs(p.subtotal + p.tax_amount + OrZero(p.shipping) - OrZero(p.discount)
           - p.grand_total) = EPSILON
       \/ Abs(SumSeq(p.line_totals) - p.subtotal) = EPSILON
       THEN BOOLEAN ELSE {FALSE}

\* the outcomes of round(final_score, 2) on a document: they go either way
\* only halfway between two hundredths (the penalties are whole hundredths)
RoundOutcomes(p) ==
    IF (p.confidence * FieldsPresent(p)) % 4 = 2 THEN BOOLEAN ELSE {FALSE}

ApproverInputs == {None, Some(""), Some("alice"), Some("bob")}
Times == 1..MaxTime

\* FilingSystem.generate_filing_info (folder_path and audit_log are not
\* read by the workflow and are left out of the dict)
generate_filing_info(p, ngo_context, flags) ==
    LET initial_status == _determine_initial_status(flags)
        date_used == IF p.issue_date # None THEN p.issue_date[1] ELSE Today
    IN  [file_name |-> _build_file_name(date_used, p.vendor, p.invoice,
                           ngo_context.project_code, ngo_context.grant_code,
                           p.grand_total, p.currency, initial_status, <<".", "pdf">>),
         status |-> initial_status,
         approver |-> None,
         approved_at |-> None]

\* ----------------------------------------------------------------- Init
InitWorkflow ==
    /\ filing = None
    /\ validation_flags = <<>>
    /\ wf_call = None
    /\ wf_result = "none"
    /\ left = {}

\* ValidationEngine(org_profile), as the orchestrator constructs it
InitValidator ==
    /\ validator = [existing_docs |-> <<>>, flags |-> <<>>, audit_entries |-> <<>>]
    /\ v_call = None

\* LedgerManager("ledger.json") with no ledger file on disk
InitLedger ==
    /\ ledger = <<>>
    /\ disk = <<>>
    /\ ledger_call = None
    /\ last_added = [id \in {} |-> None]

InitPipeline ==
    /\ next_id = 0
    /\ stored = {}
    /\ result = None

\* AuditTrailManager("audit_trail.jsonl") with no audit file on disk
InitApproval ==
    /\ audit_trail = <<>>
    /\ approval = None

\* the request threads of the web server, none of them in a call
Threads == 1..MaxThreads

InitThreads == threads = [t \in Threads |-> [pc |-> "idle"]]

Init ==
    InitWorkflow /\ InitValidator /\ InitLedger /\ InitPipeline /\ InitApproval /\ InitThreads
    /\ call = None

\* ------------------------------------------------- the approval workflow
\* FilingSystem.generate_filing_info for the document that enters the workflow
GenerateFilingInfo ==
    /\ filing = None
    /\ \E u \in ParsedDocuments, flags \in FlagLists :
          /\ filing' = Some(generate_filing_info(u.parsed, classify(u.parsed, u.hints), flags))
          /\ validation_flags' = flags
    /\ UNCHANGED <<wf_call, wf_result, left, validator_vars, ledger_vars, pipeline_vars, approval_vars, threads, call>>

\* ApprovalWorkflow.transition(filing_info, new_status, approver)
Transition ==
    /\ filing # None
    /\ \E new_status \in Status, approver \in ApproverInputs, now \in Times :
          LET r == transition(filing[1], new_status, approver, now)
          IN  /\ filing' = Some(r.info)
              /\ wf_result' = r.outcome
              /\ wf_call' = Some([before |-> filing[1], new_status |-> new_status,
                                   approver |-> approver])
              /\ left' = IF r.outcome = "ok" THEN left \cup {filing[1].status} ELSE left
    /\ UNCHANGED <<validation_flags, validator_vars, ledger_vars, pipeline_vars, approval_vars, threads, call>>

NextWorkflow == GenerateFilingInfo \/ Transition

SpecWorkflow == Init /\ [][NextWorkflow]_vars

\* ------------------------------------------------- the validation engine
Checksums == {"sha-a", "sha-b"}
Fingerprints ==
    {compute_fingerprint(p.vendor, p.issue_date, p.invoice, p.grand_total) :
        p \in {CleanInvoice, UndatedReceipt}}

\* the records an engine is constructed over: full records, records without
\* a fingerprint, and ledger rows, which hold neither key
ExistingRecords ==
    {[doc_id |-> "doc-001", checksum_sha256 |-> c, doc_fingerprint |-> f] :
        c \in Checksums, f \in Fingerprints}
    \cup {[doc_id |-> "doc-002", checksum_sha256 |-> c] : c \in Checksums}
    \cup {[doc_id |-> "doc-003", status |-> DRAFT]}

\* ValidationEngine(org_profile, existing_docs)
InitValidatorOver ==
    /\ validator \in [existing_docs : SeqsUpTo(ExistingRecords, MaxExisting),
                      flags : {<<>>}, audit_entries : {<<>>}]
    /\ v_call = None

\* ValidationEngine.validate(parsed_data, checksum, fingerprint)
Validate ==
    /\ \E u \in ParsedDocuments, checksum \in Checksums, fingerprint \in Fingerprints,
          fp_above \in BOOLEAN, round_up \in BOOLEAN :
          LET r == validate(validator.existing_docs, u.parsed, checksum, fingerprint,
                            fp_above, round_up)
          IN  /\ validator' = [validator EXCEPT !.flags = r.flags,
                                                !.audit_entries = r.audit_log]
              /\ v_call' = Some([parsed |-> u.parsed, checksum |-> checksum,
                                 fingerprint |-> fingerprint, result |-> r])
    /\ UNCHANGED <<workflow_vars, ledger_vars, pipeline_vars, approval_vars, threads, call>>

NextValidator == Validate

InitOverRecords ==
    InitWorkflow /\ InitValidatorOver /\ InitLedger /\ InitPipeline /\ InitApproval
    /\ InitThreads /\ call = None

SpecValidator == InitOverRecords /\ [][NextValidator]_vars

\* ---------------------------------------- the validation engine, by field
\* amounts around the tolerance of the math check: the stated total is off
\* by d hundredths, with and without shipping and discount; and a document
\* on which no amount was found
FieldAmounts ==
    {[subtotal |-> 100, tax_amount |-> 17, shipping |-> c.shipping, discount |-> c.discount,
      grand_total |-> 117 + OrZero(c.shipping) - OrZero(c.discount) + d] :
        c \in {[shipping |-> None, discount |-> None],
               [shipping |-> Some(5), discount |-> Some(2)]},
        d \in {-3, -2, -1, 0, 2, 3}}
    \cup {[subtotal |-> 0, tax_amount |-> 0, shipping |-> None, discount |-> None,
           grand_total |-> 0]}

FieldDates ==
    {None,
     Some([year |-> 2026, month |-> 3, day |-> 15]),
     Some([year |-> 2026, month |-> 3, day |-> 16]),
     Some([year |-> 2023, month |-> 12, day |-> 31])}

FieldConfidences == {60, 74, 75, 90}
FieldVendors == {<<>>, <<"Acme", " ", "Corp">>}
FieldCurrencies == {"", "ILS"}

\* what the parser hands over, field by field
FieldDocument(a, issue_date, due_date, confidence, vendor, currency) ==
    [vendor |-> vendor, vendor_contact |-> TRUE,
     invoice |-> Some(<<"INV", "-", "001">>),
     issue_date |-> issue_date, due_date |-> due_date,
     subtotal |-> a.subtotal, tax_amount |-> a.tax_amount, tax_rate |-> Some(1700),
     shipping |-> a.shipping, discount |-> a.discount, grand_total |-> a.grand_total,
     line_totals |-> IF a.subtotal > 0 THEN <<a.subtotal>> ELSE <<>>,
     currency |-> currency, confidence |-> confidence]

\* ValidationEngine(org_profile, existing_docs) over no record or over the
\* record of the bytes "sha-a", new or as an earlier validate call left it
InitValidatorFields ==
    /\ validator \in [existing_docs : {<<>>, <<[doc_id |-> "doc-001", checksum_sha256 |-> "sha-a"]>>},
                      flags : {<<>>, <<ValidationFlag("math_mismatch", HIGH, "totals.grand_total")>>},
                      audit_entries : {<<>>}]
    /\ v_call = None

\* ValidationEngine.validate(parsed_data, checksum, fingerprint), once on
\* each engine
ValidateFields ==
    /\ v_call = None
    /\ \E a \in FieldAmounts, issue_date \in FieldDates, due_date \in FieldDates,
          confidence \in FieldConfidences, vendor \in FieldVendors,
          currency \in FieldCurrencies, fp_above \in BOOLEAN, round_up \in BOOLEAN :
          LET p == FieldDocument(a, issue_date, due_date, confidence, vendor, currency)
              fingerprint == compute_fingerprint(p.vendor, p.issue_date, p.invoice, p.grand_total)
              r == validate(validator.existing_docs, p, "sha-a", fingerprint, fp_above, round_up)
          IN  /\ validator' = [validator EXCEPT !.flags = r.flags,
                                                !.audit_entries = r.audit_log]
              /\ v_call' = Some([parsed |-> p, checksum |-> "sha-a",
                                 fingerprint |-> fingerprint, result |-> r])
    /\ UNCHANGED <<workflow_vars, ledger_vars, pipeline_vars, approval_vars, threads, call>>

NextFields == ValidateFields

InitFields ==
    InitWorkflow /\ InitValidatorFields /\ InitLedger /\ InitPipeline /\ InitApproval
    /\ InitThreads /\ call = None

SpecFields == InitFields /\ [][NextFields]_vars

\* ------------------------------------------------------------ the ledger
\* what _assemble_processed_document builds from the results of the steps
\* (ngo_context holds the classifier's fund_type too)
_assemble_processed_document(doc_id, p, classification_results, filing_info, validation_results) ==
    [doc_id |-> doc_id,
     parsed |-> p,
     ngo_context |-> classification_results,
     filing |-> filing_info,
     validation |-> validation_results]

\* the document the processing steps make of an upload
Processed(doc_id, u, existing_docs, fp_above, round_up) ==
    LET p == u.parsed
        fingerprint == compute_fingerprint(p.vendor, p.issue_date, p.invoice, p.grand_total)
        validation_results == validate(existing_docs, p, u.checksum, fingerprint,
                                       fp_above, round_up)
        classification_results == classify(p, u.hints)
        filing_info == generate_filing_info(p, classification_results, validation_results.flags)
    IN  _assemble_processed_document(doc_id, p, classification_results,
                                     filing_info, validation_results)

\* LedgerManager._save_ledger: the file holds the rows once the write has
\* succeeded; an open() that raises leaves the file as it was
_save_ledger(rows, old_disk, io) == IF io = "ok" THEN rows ELSE old_disk

Recorded(added, doc) ==
    [id \in DOMAIN added \cup {doc.doc_id} |-> IF id = doc.doc_id THEN doc ELSE added[id]]

\* the documents handed to add_entry: two documents under every doc_id
LedgerDocuments ==
    {Processed(id, u, <<>>, FALSE, FALSE) :
        id \in 1..MaxLedgerDocs, u \in {v \in ParsedDocuments : v.checksum \in {"sha-a", "sha-c"}}}

\* LedgerManager.add_entry(processed_doc)
AddEntry ==
    /\ \E doc \in LedgerDocuments, io \in {"ok", "save_raises"} :
              /\ ledger' = add_entry(ledger, doc)
              /\ disk' = _save_ledger(ledger', disk, io)
              /\ ledger_call' = Some([before |-> ledger, doc |-> doc, raised |-> io # "ok"])
              /\ last_added' = Recorded(last_added, doc)
    /\ UNCHANGED <<workflow_vars, validator_vars, pipeline_vars, approval_vars, threads, call>>

\* statistics that leave the rows without project code out of by_project
get_summary_stats_SkipsNoProject(rows) ==
    LET Idx == 1..Len(rows)
        Amount(I) == SumSeq([k \in 1..Len(rows) |-> IF k \in I THEN rows[k].grand_total ELSE 0])
    IN  [total_documents |-> Len(rows),
         total_amount |-> Amount(Idx),
         by_status |-> [st \in {rows[i].status : i \in Idx} |->
                           Cardinality({i \in Idx : rows[i].status = st})],
         by_project |-> [pr \in {rows[i].project_code : i \in Idx} \ {None} |->
                            Amount({i \in Idx : rows[i].project_code = pr})],
         by_fiscal_year |-> [fy \in {rows[i].fiscal_year : i \in Idx} |->
                                Amount({i \in Idx : rows[i].fiscal_year = fy})]]

\* LedgerManager.get_summary_stats: the sums are sums of hundredths, which
\* round(..., 2) gives back from the float sums
get_summary_stats(rows) ==
    LET Idx == 1..Len(rows)
        Amount(I) == SumSeq([k \in 1..Len(rows) |-> IF k \in I THEN rows[k].grand_total ELSE 0])
    IN  [total_documents |-> Len(rows),
         total_amount |-> Amount(Idx),
         by_status |-> [st \in {rows[i].status : i \in Idx} |->
                           Cardinality({i \in Idx : rows[i].status = st})],
         by_project |-> [pr \in {rows[i].project_code : i \in Idx} |->
                            Amount({i \in Idx : rows[i].project_code = pr})],
         by_fiscal_year |-> [fy \in {rows[i].fiscal_year : i \in Idx} |->
                                Amount({i \in Idx : rows[i].fiscal_year = fy})]]

\* a call of LedgerManager.get_summary_stats
GetSummaryStats ==
    /\ call = None
    /\ call' = Some([op |-> "get_summary_stats", before |-> ledger,
                     result |-> get_summary_stats(ledger)])
    /\ UNCHANGED <<workflow_vars, validator_vars, ledger_vars, pipeline_vars, approval_vars, threads>>

NextLedger == AddEntry \/ GetSummaryStats

SpecLedger == Init /\ [][NextLedger]_vars

\* ---------------------------------------------------------- the pipeline
\* a table that lets a contributor approve
PERMISSION_LEVELS_ContributorApproves ==
    [viewer |-> {"read"},
     contributor |-> {"read", "create", "update", "approve"},
     approver |-> {"read", "create", "update", "approve"},
     admin |-> {"read", "create", "update", "approve", "delete", "export"}]

\* AccessControl.PERMISSION_LEVELS
PERMISSION_LEVELS ==
    [viewer |-> {"read"},
     contributor |-> {"read", "create", "update"},
     approver |-> {"read", "create", "update", "approve"},
     admin |-> {"read", "create", "update", "approve", "delete", "export"}]

\* AccessControl.check_permission
check_permission(user_role, action) ==
    user_role \in DOMAIN PERMISSION_LEVELS /\ action \in PERMISSION_LEVELS[user_role]

\* SecureDocumentHandler.validate_upload (the uploads of the model are below
\* the size limit)
validate_upload(u, user_role) == check_permission(user_role, "create") /\ u.is_document

Roles == {"viewer", "contributor", "admin", "guest"}

\* where the environment makes a step of process_document raise
IoOutcomes == {"ok", "ocr_raises", "save_raises", "log_raises", "export_raises"}

\* InvoiceFilerOrchestrator._create_error_response (the first line of dev_log
\* names the user role of the call)
_create_error_response(doc_id, earlier, user_role) ==
    [success |-> FALSE, doc_id |-> doc_id, ledger_row |-> None,
     document |-> None, earlier |-> earlier, user_role |-> user_role]

\* AuditTrailManager.log_event: one more line in the file (the timestamp and
\* the details are left out)
log_event(trail, doc_id, event_type, user) ==
    Append(trail, [doc_id |-> doc_id, event_type |-> event_type, user |-> user])

\* InvoiceFilerOrchestrator.process_document(file_bytes, file_name, user_hints, user_role)
ProcessDocument ==
    /\ next_id < MaxDocs
    /\ \E u \in PipelineUploads, user_role \in Roles, io \in IoOutcomes :
        \E fp_above \in MathOutcomes(u.parsed), round_up \in RoundOutcomes(u.parsed) :
          LET doc_id == next_id + 1
              existing_docs == get_all_entries(ledger)   \* read, and not passed on
              doc == Processed(doc_id, u, validator.existing_docs, fp_above, round_up)
              reaches_validate == validate_upload(u, user_role) /\ io # "ocr_raises"
              reaches_ledger == reaches_validate
          IN  /\ next_id' = doc_id
              /\ validator' = IF reaches_validate
                                 THEN [validator EXCEPT !.flags = doc.validation.flags,
                                                        !.audit_entries = doc.validation.audit_log]
                                 ELSE validator
              /\ ledger' = IF reaches_ledger THEN add_entry(ledger, doc) ELSE ledger
              /\ disk' = IF reaches_ledger
                            THEN _save_ledger(ledger', disk, IF io = "save_raises" THEN io ELSE "ok")
                            ELSE disk
              /\ ledger_call' = IF reaches_ledger
                                   THEN Some([before |-> ledger, doc |-> doc,
                                              raised |-> io = "save_raises"])
                                   ELSE ledger_call
              /\ last_added' = IF reaches_ledger THEN Recorded(last_added, doc) ELSE last_added
              /\ stored' = IF reaches_ledger
                              THEN stored \cup {[doc_id |-> doc_id, parsed |-> u.parsed,
                                                 checksum |-> doc.validation.checksum_sha256,
                                                 fingerprint |-> doc.validation.doc_fingerprint]}
                              ELSE stored
              /\ result' = IF reaches_ledger /\ io = "ok"
                              THEN Some([success |-> TRUE, doc_id |-> doc_id,
                                         ledger_row |-> Some(_create_ledger_row(doc)),
                                         document |-> Some(doc), earlier |-> stored,
                                         user_role |-> user_role])
                              ELSE Some(_create_error_response(doc_id, stored, user_role))
              /\ audit_trail' = IF reaches_ledger /\ io \notin {"save_raises", "log_raises"}
                                   THEN log_event(audit_trail, doc_id, "process_complete", user_role)
                                   ELSE audit_trail
    /\ UNCHANGED <<workflow_vars, v_call, approval, threads, call>>

NextPipeline == ProcessDocument

SpecPipeline == Init /\ [][NextPipeline]_vars

\* ------------------------------------------------------ approve_document
\* AccessControl.can_approve
can_approve(user_role) == check_permission(user_role, "approve")

\* LedgerManager.get_entry_by_id: a copy of the first row with the doc_id
get_entry_by_id(rows, doc_id) ==
    LET idx == ExistingIdx(rows, doc_id)
    IN  IF idx = 0 THEN None ELSE Some(rows[idx])

ApproverNames == {"", "alice"}
ApprovalRoles == {"viewer", "contributor", "approver", "admin", "guest"}

Approvals == Cardinality({i \in 1..Len(audit_trail) : audit_trail[i].event_type = "approve"})

\* InvoiceFilerOrchestrator.approve_document(doc_id, approver_name, user_role):
\* status, approver and approved_at are assigned on the dict get_entry_by_id
\* returned, which is a copy of the row; neither add_entry nor _save_ledger
\* is called, so self.ledger and the ledger file stay as they are
ApproveDocument ==
    /\ Approvals < MaxApprovals
    /\ \E doc_id \in 1..MaxLedgerDocs, approver_name \in ApproverNames,
          user_role \in ApprovalRoles, io \in {"ok", "log_raises"} :
          LET entry == get_entry_by_id(ledger, doc_id)
              found == can_approve(user_role) /\ entry # None
              response ==
                  IF ~can_approve(user_role)
                     THEN [success |-> FALSE, error |-> "User does not have approval permission"]
                  ELSE IF entry = None
                     THEN [success |-> FALSE, error |-> "Document not found"]
                  ELSE IF io = "log_raises"
                     THEN [success |-> FALSE, error |-> "log_event"]
                  ELSE [success |-> TRUE, doc_id |-> doc_id, status |-> APPROVED,
                        approver |-> approver_name]
          IN  /\ audit_trail' = IF found /\ io = "ok"
                                    THEN log_event(audit_trail, doc_id, "approve", approver_name)
                                    ELSE audit_trail
              /\ approval' = Some([doc_id |-> doc_id, approver_name |-> approver_name,
                                    user_role |-> user_role, response |-> response])
    /\ UNCHANGED <<workflow_vars, validator_vars, ledger_vars, pipeline_vars, threads, call>>

NextApproval == ApproveDocument

\* self.ledger after add_entry for each document of a sequence, in order
RECURSIVE LedgerAfter(_)
LedgerAfter(docs) ==
    IF Len(docs) = 0 THEN <<>>
    ELSE add_entry(LedgerAfter(SubSeq(docs, 1, Len(docs) - 1)), docs[Len(docs)])

\* the ledgers approve_document finds: those that add_entry has built and saved
StartLedgers == {LedgerAfter(docs) : docs \in SeqsUpTo(LedgerDocuments, MaxLedgerDocs)}

InitLedgerOver ==
    /\ ledger \in StartLedgers
    /\ disk = ledger
    /\ ledger_call = None
    /\ last_added = [id \in {} |-> None]

InitApprovalOver ==
    InitWorkflow /\ InitValidator /\ InitLedgerOver /\ InitPipeline /\ InitApproval
    /\ InitThreads /\ call = None

SpecApproval == InitApprovalOver /\ [][NextApproval]_vars

\* one upload to a new orchestrator, then approvals
NextGating == (next_id = 0 /\ ProcessDocument) \/ ApproveDocument

SpecGating == Init /\ [][NextGating]_vars

\* ------------------------------------------------- reading the ledger
\* a <= b in the place of a < b
IsoLess_OrEqual(a, b) ==
    LET days == {[year |-> 2026, month |-> 3, day |-> d] : d \in 14..16}
    IN  \E x \in days, y \in days : IsoFormat(x) = a /\ IsoFormat(y) = b /\ ~DateLess(y, x)

\* a < b on two date.isoformat() strings: both are YYYY-MM-DD with leading
\* zeros, on which the order of strings is the order of dates
IsoLess(a, b) ==
    LET days == {[year |-> 2026, month |-> 3, day |-> d] : d \in 14..16}
    IN  \E x \in days, y \in days : IsoFormat(x) = a /\ IsoFormat(y) = b /\ DateLess(x, y)

\* LedgerManager.query(filters): without filters the rows get_all_entries
\* returns, else a copy of every row that passes every filter
query(rows, filters) ==
    LET Match(entry) ==
            /\ \A key \in {"fiscal_year", "project_code", "grant_code", "vendor",
                           "status", "fund_type"} \cap DOMAIN filters :
                   entry[key] = filters[key]
            /\ "min_amount" \in DOMAIN filters => ~(entry.grand_total < filters["min_amount"])
            /\ "max_amount" \in DOMAIN filters => ~(entry.grand_total > filters["max_amount"])
            /\ "start_date" \in DOMAIN filters =>
                   ~(entry.issue_date = None \/ IsoLess(entry.issue_date[1], filters["start_date"]))
            /\ "end_date" \in DOMAIN filters =>
                   ~(entry.issue_date = None \/ IsoLess(filters["end_date"], entry.issue_date[1]))
    IN  IF DOMAIN filters = {} THEN get_all_entries(rows) ELSE SelectSeq(rows, Match)

\* the filters of the callers: none, one key, two keys, a key query does not know
QueryFilters ==
    LET day(d) == IsoFormat([year |-> 2026, month |-> 3, day |-> d])
    IN  {<<>>, "category" :> "travel",
         "status" :> DRAFT, "status" :> NEEDS_REVIEW, "vendor" :> CleanInvoice.vendor,
         "project_code" :> Some(<<"EDU001">>), "project_code" :> None,
         "grant_code" :> Some(<<"GR2023">>), "fund_type" :> "restricted",
         "fiscal_year" :> "2026-2027", "fiscal_year" :> "2025-2026",
         "min_amount" :> 99, "min_amount" :> 100, "max_amount" :> 99, "max_amount" :> 98,
         "min_amount" :> 99 @@ "max_amount" :> 175500,
         "start_date" :> day(15), "start_date" :> day(16),
         "end_date" :> day(15), "end_date" :> day(14),
         "status" :> NEEDS_REVIEW @@ "end_date" :> day(16)}

\* a call of LedgerManager.query; shared says whether the rows returned are
\* the dicts of self.ledger (get_all_entries copies the list, not the dicts)
Query ==
    /\ call = None
    /\ \E filters \in QueryFilters :
          call' = Some([op |-> "query", filters |-> filters, before |-> ledger,
                        result |-> query(ledger, filters),
                        shared |-> DOMAIN filters = {}])
    /\ UNCHANGED <<workflow_vars, validator_vars, ledger_vars, pipeline_vars, approval_vars, threads>>

\* a call of LedgerManager.get_all_entries
GetAllEntries ==
    /\ call = None
    /\ call' = Some([op |-> "get_all_entries", before |-> ledger,
                     result |-> get_all_entries(ledger), shared |-> TRUE])
    /\ UNCHANGED <<workflow_vars, validator_vars, ledger_vars, pipeline_vars, approval_vars, threads>>

\* a call of LedgerManager.get_entry_by_id; the row found is returned as a copy
GetEntryById ==
    /\ call = None
    /\ \E doc_id \in 1..MaxLedgerDocs :
          call' = Some([op |-> "get_entry_by_id", doc_id |-> doc_id, before |-> ledger,
                        result |-> get_entry_by_id(ledger, doc_id), shared |-> FALSE])
    /\ UNCHANGED <<workflow_vars, validator_vars, ledger_vars, pipeline_vars, approval_vars, threads>>

\* the caller assigns to a key of a row it was returned, as approve_document
\* does with entry['status'] = 'approved': when the row is a dict of
\* self.ledger, the ledger in memory has the new value too
ModifyReturned ==
    /\ call # None
    /\ call[1].op \in {"query", "get_all_entries", "get_entry_by_id"}
    /\ \E i \in 1..Len(call[1].result) :
          /\ call' = Some([op |-> "modify", before |-> ledger, shared |-> call[1].shared,
                           doc_id |-> call[1].result[i].doc_id])
          /\ ledger' = IF call[1].shared /\ i <= Len(ledger)
                          /\ ledger[i].doc_id = call[1].result[i].doc_id
                          THEN [ledger EXCEPT ![i].status = APPROVED]
                          ELSE ledger
    /\ UNCHANGED <<workflow_vars, validator_vars, disk, ledger_call, last_added, pipeline_vars, approval_vars, threads>>

\* InputSanitizer.sanitize_filename on a name given as its characters ("ctl"
\* is a control character); replace('..', '') removes the leftmost
\* non-overlapping pairs of dots, once
sanitize_filename(filename) ==
    LET RECURSIVE RemovePairs(_)
        RemovePairs(q) ==
            IF Len(q) < 2 THEN q
            ELSE IF q[1] = "." /\ q[2] = "." THEN RemovePairs(SubSeq(q, 3, Len(q)))
            ELSE <<q[1]>> \o RemovePairs(Tail(q))
        no_separators == SelectSeq(RemovePairs(filename), LAMBDA c : c \notin {"/", "\\"})
        printable == SelectSeq(no_separators, LAMBDA c : c # "ctl")
        limited == SubSeq(printable, 1, IF Len(printable) < 255 THEN Len(printable) ELSE 255)
    IN  IF limited = <<>> THEN <<"unnamed_file">> ELSE limited

\* a call of InputSanitizer.sanitize_filename
SanitizeFilename ==
    /\ call = None
    /\ \E filename \in SeqsUpTo({".", "/", "\\", "ctl", "a"}, MaxNameLen) :
          call' = Some([op |-> "sanitize_filename", filename |-> filename,
                        before |-> ledger, result |-> sanitize_filename(filename)])
    /\ UNCHANGED <<workflow_vars, validator_vars, ledger_vars, pipeline_vars, approval_vars, threads>>

\* a call of ValidationEngine._get_fiscal_year
GetFiscalYear ==
    /\ call = None
    /\ \E year \in {2025, 2026}, month \in 1..12, fy_start_month \in 1..12 :
          LET date_obj == [year |-> year, month |-> month, day |-> 1]
          IN  call' = Some([op |-> "_get_fiscal_year", date_obj |-> date_obj,
                            fy_start_month |-> fy_start_month, before |-> ledger,
                            result |-> _get_fiscal_year(date_obj, fy_start_month)])
    /\ UNCHANGED <<workflow_vars, validator_vars, ledger_vars, pipeline_vars, approval_vars, threads>>

\* a call of ApprovalWorkflow._update_filename_status on a name a document
\* can have: one generate_filing_info built, with any status in it, or the
\* ERROR_<doc_id>.pdf of _create_error_response
UpdateFilenameStatus ==
    /\ call = None
    /\ LET built == {generate_filing_info(u.parsed, classify(u.parsed, u.hints), flags).file_name :
                        u \in ParsedDocuments, flags \in {<<>>, <<Flag(HIGH)>>}}
           names == built \cup {_update_filename_status(n, st) : n \in built, st \in Status}
                          \cup {<<"ERROR", "_", ToString(id), ".", "pdf">> : id \in 1..MaxDocs}
       IN  \E file_name \in names, new_status \in Status :
              call' = Some([op |-> "_update_filename_status", file_name |-> file_name,
                            new_status |-> new_status, before |-> ledger,
                            result |-> _update_filename_status(file_name, new_status)])
    /\ UNCHANGED <<workflow_vars, validator_vars, ledger_vars, pipeline_vars, approval_vars, threads>>

NextCalls ==
    \/ Query \/ GetSummaryStats \/ GetAllEntries \/ GetEntryById \/ ModifyReturned
    \/ SanitizeFilename \/ GetFiscalYear \/ UpdateFilenameStatus

SpecCalls == InitApprovalOver /\ [][NextCalls]_vars

\* ------------------------------------------- add_entry on request threads
\* The web server runs each request on a thread of its own over the one
\* orchestrator, and LedgerManager holds no lock: the statements of add_entry
\* of two threads interleave.  The scan for existing_idx is one step (what a
\* scan finds depends only on the writes done before it ends).
At(t, pc) == threads[t].pc = pc

\* add_entry(processed_doc) is entered: ledger_row is built
CallAddEntry(t) ==
    /\ At(t, "idle")
    /\ \E doc \in LedgerDocuments :
          threads' = [threads EXCEPT ![t] = [pc |-> "scan", doc |-> doc, existing_idx |-> 0]]
    /\ UNCHANGED <<workflow_vars, validator_vars, ledger_vars, pipeline_vars, approval_vars, call>>

\* for idx, entry in enumerate(self.ledger): ...
ScanLedger(t) ==
    /\ At(t, "scan")
    /\ threads' = [threads EXCEPT ![t].pc = "write",
                                  ![t].existing_idx = ExistingIdx(ledger, threads[t].doc.doc_id)]
    /\ UNCHANGED <<workflow_vars, validator_vars, ledger_vars, pipeline_vars, approval_vars, call>>

\* self.ledger[existing_idx] = row_dict, or self.ledger.append(row_dict)
WriteRow(t) ==
    /\ At(t, "write")
    /\ ledger' = IF threads[t].existing_idx # 0
                    THEN [ledger EXCEPT ![threads[t].existing_idx] = _create_ledger_row(threads[t].doc)]
                    ELSE Append(ledger, _create_ledger_row(threads[t].doc))
    /\ threads' = [threads EXCEPT ![t].pc = "open"]
    /\ UNCHANGED <<workflow_vars, validator_vars, disk, ledger_call, last_added,
                   pipeline_vars, approval_vars, call>>

\* _save_ledger: open(self.ledger_file, 'w') empties the file
OpenLedgerFile(t) ==
    /\ At(t, "open")
    /\ disk' = <<>>
    /\ threads' = [threads EXCEPT ![t].pc = "dump"]
    /\ UNCHANGED <<workflow_vars, validator_vars, ledger, ledger_call, last_added,
                   pipeline_vars, approval_vars, call>>

\* _save_ledger: json.dump(self.ledger, f) writes the rows of that moment
\* (the bytes of two dumps at once are taken not to mix), and add_entry returns
DumpLedger(t) ==
    /\ At(t, "dump")
    /\ disk' = ledger
    /\ threads' = [threads EXCEPT ![t].pc = "done"]
    /\ UNCHANGED <<workflow_vars, validator_vars, ledger, ledger_call, last_added,
                   pipeline_vars, approval_vars, call>>

NextLedgerThreads ==
    \E t \in Threads :
        CallAddEntry(t) \/ ScanLedger(t) \/ WriteRow(t) \/ OpenLedgerFile(t) \/ DumpLedger(t)

SpecLedgerThreads == Init /\ [][NextLedgerThreads]_vars

\* -------------------------------------------- validate on request threads
\* The orchestrator holds one ValidationEngine, and validate keeps its flags
\* and audit entries in self.flags and self.audit_entries: the statements of
\* validate of two threads interleave on them.
CheckSteps == <<"math", "dates", "tax", "currency", "vendor", "dedupe", "ocr">>

\* what one statement of validate appends to self.flags and self.audit_entries
\* (the documents of the threads are away from the float boundaries)
StepOutcome(step, existing_docs, p, checksum, fingerprint) ==
    CASE step = "math" -> _validate_math(p, FALSE)
      [] step = "dates" -> _validate_dates(p)
      [] step = "tax" -> _validate_tax(p)
      [] step = "currency" -> _validate_currency(p)
      [] step = "vendor" -> _validate_vendor(p)
      [] step = "dedupe" ->
            [flags |-> _check_duplicate(existing_docs, checksum, fingerprint).flags,
             audit |-> <<>>]
      [] step = "ocr" ->
            [flags |-> IF p.confidence < OcrThreshold
                          THEN <<ValidationFlag("ocr_low_confidence", MEDIUM, "confidence")>>
                          ELSE <<>>,
             audit |-> <<>>]

\* the documents two requests bring at once
ThreadUploads == {u \in ParsedDocuments : u.checksum \in {"sha-a", "sha-c"}}

\* validate(parsed_data, checksum, fingerprint) is entered
CallValidate(t) ==
    /\ At(t, "idle")
    /\ \E u \in ThreadUploads :
          threads' = [threads EXCEPT ![t] =
              [pc |-> "reset", parsed |-> u.parsed, checksum |-> u.checksum,
               fingerprint |-> compute_fingerprint(u.parsed.vendor, u.parsed.issue_date,
                                                   u.parsed.invoice, u.parsed.grand_total),
               step |-> 1, score |-> 0, result |-> None]]
    /\ UNCHANGED <<workflow_vars, validator_vars, ledger_vars, pipeline_vars, approval_vars, call>>

\* self.flags = []; self.audit_entries = []
ResetFlags(t) ==
    /\ At(t, "reset")
    /\ validator' = [validator EXCEPT !.flags = <<>>, !.audit_entries = <<>>]
    /\ threads' = [threads EXCEPT ![t].pc = "check"]
    /\ UNCHANGED <<workflow_vars, v_call, ledger_vars, pipeline_vars, approval_vars, call>>

\* the next of _validate_math .. _check_duplicate and the OCR check
RunCheck(t) ==
    /\ At(t, "check")
    /\ LET me == threads[t]
           r == StepOutcome(CheckSteps[me.step], validator.existing_docs, me.parsed,
                            me.checksum, me.fingerprint)
       IN  /\ validator' = [validator EXCEPT !.flags = @ \o r.flags,
                                              !.audit_entries = @ \o r.audit]
           /\ threads' = [threads EXCEPT ![t].pc = IF me.step = Len(CheckSteps) THEN "score"
                                                   ELSE "check",
                                         ![t].step = me.step + 1]
    /\ UNCHANGED <<workflow_vars, v_call, ledger_vars, pipeline_vars, approval_vars, call>>

\* score = self._compute_confidence_score(parsed_data)
ComputeScore(t) ==
    /\ At(t, "score")
    /\ threads' = [threads EXCEPT ![t].pc = "return",
                                  ![t].score = _compute_confidence_score(threads[t].parsed,
                                                                         validator.flags, FALSE)]
    /\ UNCHANGED <<workflow_vars, validator_vars, ledger_vars, pipeline_vars, approval_vars, call>>

\* the "validate" audit entry, and the dict returned with self.flags in it
ReturnResult(t) ==
    /\ At(t, "return")
    /\ validator' = [validator EXCEPT !.audit_entries = Append(@, "validate")]
    /\ threads' = [threads EXCEPT ![t].pc = "done",
                                  ![t].result = Some([score_confidence |-> threads[t].score,
                                                      flags |-> validator.flags])]
    /\ UNCHANGED <<workflow_vars, v_call, ledger_vars, pipeline_vars, approval_vars, call>>

NextValidatorThreads ==
    \E t \in Threads :
        CallValidate(t) \/ ResetFlags(t) \/ RunCheck(t) \/ ComputeScore(t) \/ ReturnResult(t)

SpecValidatorThreads == Init /\ [][NextValidatorThreads]_vars

\* =========================================================== properties
\* ------------------------------------------------- the approval workflow
Called == wf_call # None
Call == wf_call[1]
Info == filing[1]
Rejected == wf_result \in {"invalid_transition", "high_severity_flags", "approver_required"}

LegalPairs ==
    {<<DRAFT, NEEDS_REVIEW>>, <<DRAFT, APPROVED>>, <<NEEDS_REVIEW, DRAFT>>,
     <<NEEDS_REVIEW, APPROVED>>, <<APPROVED, POSTED>>}

\* C1: transition succeeds only on one of the five pairs of the table, every
\* other pair (every self-transition among them) ends in the
\* invalid-transition error, and can_transition is true of exactly the five.
C1_TransitionTable ==
    /\ \A a \in Status, b \in Status : can_transition(a, b) <=> <<a, b>> \in LegalPairs
    /\ Called =>
          LET pair == <<Call.before.status, Call.new_status>>
          IN  /\ wf_result = "ok" => pair \in LegalPairs
              /\ pair \notin LegalPairs => wf_result = "invalid_transition"

C1_Witness ==
    /\ Called
    /\ wf_result = "invalid_transition"
    /\ Call.before.status = NEEDS_REVIEW
    /\ Call.new_status = NEEDS_REVIEW
    /\ TruthyStr(Call.approver)

\* C2: posted is terminal: a transition call on a posted filing_info fails,
\* whatever the target and the approver, and leaves it posted.
C2_PostedTerminal ==
    [][(filing # None /\ Info.status = POSTED)
         => (filing' # None /\ filing'[1].status = POSTED /\ wf_result' # "ok")]_vars

C2_Witness ==
    /\ Called
    /\ Call.before.status = POSTED
    /\ Call.new_status = DRAFT
    /\ TruthyStr(Call.approver)
    /\ Rejected

\* C3: a transition to approved without an approver (None or "") fails; from
\* draft or needs_review with an approver it succeeds and records the approver
\* and an approval time.
C3_ApprovalNeedsApprover ==
    (Called /\ Call.new_status = APPROVED) =>
        /\ (Call.approver = None \/ Call.approver = Some("")) => Rejected
        /\ (Call.before.status \in {DRAFT, NEEDS_REVIEW}
              /\ Call.approver \notin {None, Some("")})
             => /\ wf_result = "ok"
                /\ Info.status = APPROVED
                /\ Info.approver = Call.approver
                /\ Info.approved_at # None

C3_Witness ==
    /\ Called
    /\ Call.new_status = APPROVED
    /\ Call.before.status = DRAFT
    /\ Call.approver = Some("alice")
    /\ wf_result = "ok"

\* C4: a rejected transition call leaves status, approver, approved_at and
\* file_name of the filing_info as they were.
C4_RejectedLeavesUnchanged == (Called /\ Rejected) => Info = Call.before

\* C5: a document whose validation result holds a HIGH flag is never posted.
HasHighFlag == \E i \in 1..Len(validation_flags) : validation_flags[i].severity = HIGH

C5_HighFlagNeverPosted == (filing # None /\ HasHighFlag) => Info.status # POSTED

\* C6: the last "__"-delimited component of file_name before the extension
\* is the value of the current status.
StatusComponent(file_name) ==
    LET name_parts == SplitDU(RSplitDot(file_name)[1])
    IN  name_parts[Len(name_parts)]

C6_FileNameReflectsStatus ==
    filing # None => StatusComponent(Info.file_name) = StatusValue(Info.status)

\* ------------------------------------------------------------ the ledger
RowsOf(doc_id) == {i \in 1..Len(ledger) : ledger[i].doc_id = doc_id}

\* a row carries the data of a document
Carries(row, doc) ==
    /\ row.doc_id = doc.doc_id
    /\ row.vendor = doc.parsed.vendor
    /\ row.grand_total = doc.parsed.grand_total
    /\ row.currency = doc.parsed.currency
    /\ row.status = doc.filing.status
    /\ row.file_name = doc.filing.file_name
    /\ row.dedupe_status = doc.validation.dedupe_status

\* C7: after any sequence of add_entry calls from an empty ledger there is at
\* most one row per doc_id, and the row of a doc_id carries the data of the
\* most recent add_entry for it.
C7_UpsertIdempotent ==
    /\ \A i \in 1..Len(ledger), j \in 1..Len(ledger) :
          ledger[i].doc_id = ledger[j].doc_id => i = j
    /\ \A id \in DOMAIN last_added :
          /\ Cardinality(RowsOf(id)) = 1
          /\ \A i \in RowsOf(id) : Carries(ledger[i], last_added[id])

\* the same doc_id has been added twice, with different data
C7_Witness ==
    /\ ledger_call # None
    /\ \E i \in 1..Len(ledger_call[1].before) :
          /\ ledger_call[1].before[i].doc_id = ledger_call[1].doc.doc_id
          /\ ledger_call[1].before[i].grand_total # ledger_call[1].doc.parsed.grand_total
    /\ Len(ledger) >= 2

\* C8: add_entry for a doc_id in the ledger replaces that row where it is and
\* leaves the length and every other row as they were; add_entry for a new
\* doc_id appends the row and leaves the rows before it as they were.
C8_AddEntryFrame ==
    ledger_call # None =>
        LET before == ledger_call[1].before
            doc == ledger_call[1].doc
            at == {i \in 1..Len(before) : before[i].doc_id = doc.doc_id}
        IN  IF at # {}
               THEN /\ Len(ledger) = Len(before)
                    /\ \A i \in 1..Len(before) :
                          IF i \in at THEN Carries(ledger[i], doc)
                          ELSE ledger[i] = before[i]
               ELSE /\ Len(ledger) = Len(before) + 1
                    /\ \A i \in 1..Len(before) : ledger[i] = before[i]
                    /\ Carries(ledger[Len(ledger)], doc)

\* a row that is not the last one has been replaced
C8_Witness ==
    /\ ledger_call # None
    /\ Len(ledger) >= 2
    /\ ledger_call[1].before[1].doc_id = ledger_call[1].doc.doc_id
    /\ ledger_call[1].before[1] # ledger[1]

\* ------------------------------------------------- the validation engine
ChecksumMatch(c) ==
    \E i \in 1..Len(validator.existing_docs) :
        /\ "checksum_sha256" \in DOMAIN validator.existing_docs[i]
        /\ validator.existing_docs[i].checksum_sha256 = c.checksum

FingerprintMatch(c) ==
    \E i \in 1..Len(validator.existing_docs) :
        /\ "doc_fingerprint" \in DOMAIN validator.existing_docs[i]
        /\ validator.existing_docs[i].doc_fingerprint = c.fingerprint

DuplicateFlags(flags) == {i \in 1..Len(flags) : flags[i].type = "duplicate"}

\* C9: validate answers duplicate when a record has the checksum (also when a
\* record has the fingerprint), suspected_duplicate when none has the checksum
\* and one has the fingerprint, unique otherwise; it adds one HIGH duplicate
\* flag in the first two cases and none in the third.
C9_DedupeOutcome ==
    v_call # None =>
        LET c == v_call[1]
            dups == DuplicateFlags(c.result.flags)
        IN  /\ ChecksumMatch(c) => c.result.dedupe_status = DUPLICATE
            /\ (~ChecksumMatch(c) /\ FingerprintMatch(c))
                 => c.result.dedupe_status = SUSPECTED_DUPLICATE
            /\ (~ChecksumMatch(c) /\ ~FingerprintMatch(c))
                 => c.result.dedupe_status = UNIQUE
            /\ c.result.dedupe_status # UNIQUE
                 => /\ Cardinality(dups) = 1
                    /\ \A i \in dups : c.result.flags[i].severity = HIGH
            /\ c.result.dedupe_status = UNIQUE => dups = {}

\* a record has the checksum and a record has the fingerprint
C9_Witness ==
    /\ v_call # None
    /\ ChecksumMatch(v_call[1])
    /\ FingerprintMatch(v_call[1])
    /\ v_call[1].result.dedupe_status = DUPLICATE

\* ---------------------------------------------------------- the pipeline
HasHighDuplicateFlag(flags) ==
    \E i \in 1..Len(flags) : flags[i].type = "duplicate" /\ flags[i].severity = HIGH

C11_ApprovalReachesLedger ==
    (approval # None /\ approval[1].response.success) =>
        LET entry == get_entry_by_id(ledger, approval[1].doc_id)
        IN  /\ entry # None
            /\ entry[1].status = APPROVED
            /\ entry[1].approver = Some(approval[1].approver_name)
            /\ entry[1].approved_at # None
            /\ StatusComponent(entry[1].file_name) = StatusValue(APPROVED)

\* ---------------------------------------- the validation engine, by field
FlagsOf(flags, type, severity) ==
    {i \in 1..Len(flags) : flags[i].type = type /\ flags[i].severity = severity}

\* C12: a difference of at most 0.02 between subtotal + tax + shipping -
\* discount and grand_total gives no HIGH math_mismatch flag, a difference of
\* at least 0.03 gives exactly one.
C12_MathTolerance ==
    v_call # None =>
        LET p == v_call[1].parsed
            diff == Abs(p.subtotal + p.tax_amount + OrZero(p.shipping) - OrZero(p.discount)
                        - p.grand_total)
            high_math == FlagsOf(v_call[1].result.flags, "math_mismatch", HIGH)
        IN  /\ diff <= 2 => high_math = {}
            /\ diff >= 3 => Cardinality(high_math) = 1

\* C13: with both dates present, validate gives a HIGH suspicious_date flag
\* exactly when the due date is before the issue date.
C13_DueBeforeIssue ==
    (v_call # None /\ v_call[1].parsed.issue_date # None /\ v_call[1].parsed.due_date # None) =>
        LET p == v_call[1].parsed
            high_date == FlagsOf(v_call[1].result.flags, "suspicious_date", HIGH)
        IN  IF Ordinal(p.due_date[1]) < Ordinal(p.issue_date[1])
               THEN Cardinality(high_date) = 1
               ELSE high_date = {}

\* a document due the day before it was issued, and flagged
C13_Witness ==
    /\ v_call # None
    /\ v_call[1].parsed.issue_date = Some([year |-> 2026, month |-> 3, day |-> 16])
    /\ v_call[1].parsed.due_date = Some([year |-> 2026, month |-> 3, day |-> 15])
    /\ FlagsOf(v_call[1].result.flags, "suspicious_date", HIGH) # {}

\* ------------------------------------------------------ the filing system
\* C14: generate_filing_info starts a document in needs_review exactly when
\* its validation flags hold a HIGH or a MEDIUM one, else in draft; never in
\* approved or posted; approver and approved_at start as None.
C14_InitialStatus ==
    (filing # None /\ wf_call = None) =>
        LET review == \E i \in 1..Len(validation_flags) :
                          validation_flags[i].severity \in {HIGH, MEDIUM}
        IN  /\ Info.status = (IF review THEN NEEDS_REVIEW ELSE DRAFT)
            /\ Info.status \notin {APPROVED, POSTED}
            /\ Info.approver = None
            /\ Info.approved_at = None

\* a document with a LOW and a MEDIUM flag starts in needs_review
C14_Witness ==
    /\ filing # None
    /\ wf_call = None
    /\ Len(validation_flags) = 2
    /\ validation_flags[1].severity = LOW
    /\ validation_flags[2].severity = MEDIUM
    /\ Info.status = NEEDS_REVIEW

\* ------------------------------------------------------- a failed persist
\* C15: when the write of the ledger file fails inside add_entry, the
\* in-memory ledger afterwards is the ledger last persisted.
C15_FailedSaveLeavesLedger ==
    (ledger_call # None /\ ledger_call[1].raised) => ledger = disk

\* ------------------------------------------- add_entry on request threads
AllDone == \A t \in Threads : At(t, "done")

\* C16: when concurrent add_entry calls for one doc_id have all returned,
\* the ledger holds one row for the doc_id, with the data of one of the
\* calls, and the ledger file holds the in-memory ledger.
C16_ConcurrentUpsert ==
    (AllDone /\ \A s \in Threads, t \in Threads : threads[s].doc.doc_id = threads[t].doc.doc_id) =>
        LET id == threads[1].doc.doc_id
        IN  /\ Cardinality(RowsOf(id)) = 1
            /\ \A i \in RowsOf(id) : \E t \in Threads : Carries(ledger[i], threads[t].doc)
            /\ disk = ledger

\* -------------------------------------------- validate on request threads
\* C17: a validate call that runs beside another one returns the flags and
\* the score it returns when it runs alone.
C17_ValidateUnshared ==
    \A t \in Threads :
        At(t, "done") =>
            LET alone == validate(validator.existing_docs, threads[t].parsed,
                                  threads[t].checksum, threads[t].fingerprint, FALSE, FALSE)
            IN  /\ threads[t].result[1].flags = alone.flags
                /\ threads[t].result[1].score_confidence = alone.score_confidence

\* ------------------------------------------------- the transition graph
\* C18, as stated: along successful transitions a document never re-enters
\* a status it has left.
C18_NeverReenters == filing # None => Info.status \notin left

\* C18, amended: draft and needs_review lead to each other and may be
\* re-entered; a document never re-enters approved or posted, and once a
\* successful transition has taken it out of approved it is in neither draft
\* nor needs_review again.
C18_NeverReentersApproved ==
    filing # None =>
        /\ Info.status \in left => Info.status \in {DRAFT, NEEDS_REVIEW}
        /\ APPROVED \in left => Info.status = POSTED

\* a document that went between draft and needs_review, was approved and
\* is posted
C18_Witness ==
    /\ filing # None
    /\ left = {DRAFT, NEEDS_REVIEW, APPROVED}
    /\ Info.status = POSTED
    /\ wf_result = "ok"

NormalizedTuple(p) ==
    <<NormWord(p.vendor), p.issue_date,
      IF TruthyName(p.invoice) THEN NormWord(p.invoice[1]) ELSE "NOINV",
      IntPart(p.grand_total)>>

C21_OneEntryPerCheck ==
    v_call # None =>
        SelectSeq(v_call[1].result.audit_log,
                  LAMBDA step : step \in {"validate_math", "validate_dates",
                                          "validate_tax", "validate_currency"})
            = <<"validate_math", "validate_dates", "validate_tax", "validate_currency">>

\* --------------------------------------------------- the approver fields
\* C27: in every state of a filing_info reached from generate_filing_info by
\* transition calls, rejected ones included, status approved or posted implies
\* a non-empty approver and a set approved_at, and status draft or
\* needs_review of a document that was never approved implies that both are
\* null.
C27_ApproverInvariant ==
    filing # None =>
        /\ filing[1].status \in {APPROVED, POSTED}
             => TruthyStr(filing[1].approver) /\ filing[1].approved_at # None
        /\ (filing[1].status \in {DRAFT, NEEDS_REVIEW} /\ APPROVED \notin left)
             => filing[1].approver = None /\ filing[1].approved_at = None

\* ------------------------------------------- what the pipeline commits
\* C28: when process_document returns success = false with ledger_row null
\* for a doc_id, the ledger holds no row of that doc_id; when it returns
\* success = true, the ledger holds exactly one row of that doc_id, equal to
\* the returned ledger_row.
C28_FailureCommitAgreement ==
    result # None =>
        LET r == result[1]
        IN  /\ (~r.success /\ r.ledger_row = None) => RowsOf(r.doc_id) = {}
            /\ r.success =>
                  /\ Cardinality(RowsOf(r.doc_id)) = 1
                  /\ \A i \in RowsOf(r.doc_id) : ledger[i] = r.ledger_row[1]

\* ----------------------------------------------------------- role gating
\* C23: approve_document by a role without the approve permission returns
\* success = false, process_document by a role without the create permission
\* returns success = false, and both leave the ledger and its file as they
\* were; only approver and admin can approve, and admin has every permission.
C23_RoleGating ==
    /\ [][((approval' # approval /\ approval'[1].user_role \notin {"approver", "admin"})
              => (~approval'[1].response.success /\ ledger' = ledger /\ disk' = disk))
           /\ ((result' # result
                /\ result'[1].user_role \notin {"contributor", "approver", "admin"})
              => (~result'[1].success /\ ledger' = ledger /\ disk' = disk))]_vars
    /\ [](/\ \A role \in ApprovalRoles \cup Roles :
                can_approve(role) <=> role \in {"approver", "admin"}
          /\ \A action \in UNION {PERMISSION_LEVELS[role] : role \in DOMAIN PERMISSION_LEVELS} :
                check_permission("admin", action))

\* an upload by a viewer and an approval by a contributor, both refused, next
\* to a ledger that holds a row
C23_Witness ==
    /\ result # None /\ result[1].user_role = "viewer" /\ ~result[1].success
    /\ approval # None /\ approval[1].user_role = "contributor"
    /\ ~approval[1].response.success

\* ------------------------------------------------- reading the ledger
\* the day an ISO string of the model names
DayOf(iso) == CHOOSE d \in {[year |-> 2026, month |-> 3, day |-> n] : n \in 1..31} : IsoFormat(d) = iso

\* a row satisfies every filter supplied
Satisfies(row, filters) ==
    LET Has(key) == key \in DOMAIN filters
    IN  /\ Has("fiscal_year") => row.fiscal_year = filters["fiscal_year"]
        /\ Has("project_code") => row.project_code = filters["project_code"]
        /\ Has("grant_code") => row.grant_code = filters["grant_code"]
        /\ Has("vendor") => row.vendor = filters["vendor"]
        /\ Has("status") => row.status = filters["status"]
        /\ Has("fund_type") => row.fund_type = filters["fund_type"]
        /\ Has("min_amount") => filters["min_amount"] <= row.grand_total
        /\ Has("max_amount") => row.grand_total <= filters["max_amount"]
        /\ Has("start_date") =>
              /\ row.issue_date # None
              /\ Ordinal(DayOf(filters["start_date"])) <= Ordinal(DayOf(row.issue_date[1]))
        /\ Has("end_date") =>
              /\ row.issue_date # None
              /\ Ordinal(DayOf(row.issue_date[1])) <= Ordinal(DayOf(filters["end_date"]))

\* C24: query returns exactly the rows of the ledger that satisfy every
\* supplied filter, in ledger order; with no filter it returns all rows in
\* insertion order.
C24_QueryFilters ==
    (call # None /\ call[1].op = "query") =>
        /\ call[1].result = SelectSeq(call[1].before, LAMBDA row : Satisfies(row, call[1].filters))
        /\ DOMAIN call[1].filters = {} => call[1].result = call[1].before

\* a date filter on a ledger with a dated and an undated row: one row passes
C24_Witness ==
    /\ call # None /\ call[1].op = "query"
    /\ "start_date" \in DOMAIN call[1].filters
    /\ \E i \in 1..Len(call[1].before) : call[1].before[i].issue_date = None
    /\ Len(call[1].before) = 2 /\ Len(call[1].result) = 1

RECURSIVE SumOver(_, _)
SumOver(f, S) ==
    IF S = {} THEN 0
    ELSE LET x == CHOOSE y \in S : TRUE IN f[x] + SumOver(f, S \ {x})

\* C25: after any sequence of add_entry calls, get_summary_stats gives as
\* total_documents the number of rows, which is the number of distinct
\* doc_ids; the by_status counts sum to it; total_amount is the sum of the
\* rows' grand_total, and so are the sum of the by_project amounts and the sum
\* of the by_fiscal_year amounts.  A doc_id added again counts once.
C25_SummaryStats ==
    (call # None /\ call[1].op = "get_summary_stats") =>
        LET stats == call[1].result
            rows == call[1].before
            total == SumSeq([i \in 1..Len(rows) |-> rows[i].grand_total])
        IN  /\ stats.total_documents = Len(rows)
            /\ stats.total_documents = Cardinality({rows[i].doc_id : i \in 1..Len(rows)})
            /\ SumOver(stats.by_status, DOMAIN stats.by_status) = stats.total_documents
            /\ stats.total_amount = total
            /\ SumOver(stats.by_project, DOMAIN stats.by_project) = total
            /\ SumOver(stats.by_fiscal_year, DOMAIN stats.by_fiscal_year) = total

\* the statistics of a ledger whose last add_entry replaced the row of its
\* doc_id by one with another amount, next to a row of another doc_id
C25_Witness ==
    /\ call # None /\ call[1].op = "get_summary_stats" /\ call[1].before = ledger
    /\ ledger_call # None /\ Len(ledger) = 2
    /\ \E i \in 1..Len(ledger_call[1].before) :
          /\ ledger_call[1].before[i].doc_id = ledger_call[1].doc.doc_id
          /\ ledger_call[1].before[i].grand_total # ledger_call[1].doc.parsed.grand_total
    /\ call[1].result.total_documents = 2

\* C30: get_all_entries, get_entry_by_id, query and get_summary_stats leave
\* the ledger as it was, and so does a caller that changes a row one of them
\* returned.
C30_ReadsLeaveLedger ==
    call # None => ledger = call[1].before

\* ------------------------------------------------------------ file names
\* C22: sanitize_filename returns a non-empty string of at most 255
\* characters without "..", "/" and "\".
C22_SanitizedFilename ==
    (call # None /\ call[1].op = "sanitize_filename") =>
        LET name == call[1].result
        IN  /\ name # <<>>
            /\ Len(name) <= 255
            /\ \A i \in 1..Len(name) : name[i] \notin {"/", "\\"}
            /\ \A i \in 1..(Len(name) - 1) : ~(name[i] = "." /\ name[i + 1] = ".")

\* C29: _update_filename_status changes the trailing "__"-delimited component
\* of the name to the new status and nothing else: the extension, the number
\* of components and every other component stay, and a name without "__"
\* stays as it is.
C29_FileNameFrame ==
    (call # None /\ call[1].op = "_update_filename_status") =>
        LET old_parts == RSplitDot(call[1].file_name)
            new_parts == RSplitDot(call[1].result)
            old_names == SplitDU(old_parts[1])
            new_names == SplitDU(new_parts[1])
        IN  /\ Len(new_parts) = Len(old_parts)
            /\ Len(old_parts) > 1 => new_parts[2] = old_parts[2]
            /\ Len(new_names) = Len(old_names)
            /\ \A i \in 1..(Len(old_names) - 1) : new_names[i] = old_names[i]
            /\ Len(old_names) >= 2 => new_names[Len(new_names)] = StatusValue(call[1].new_status)
            /\ Len(old_names) < 2 => call[1].result = call[1].file_name

\* the name of a document whose project code holds "__" gets another status
C29_Witness ==
    /\ call # None /\ call[1].op = "_update_filename_status"
    /\ Len(SplitDU(RSplitDot(call[1].file_name)[1])) > 7
    /\ call[1].new_status = APPROVED
    /\ call[1].result # call[1].file_name

\* -------------------------------------------------------- the fiscal year
\* the month after a month
NextMonth(d) ==
    IF d.month = 12 THEN [d EXCEPT !.year = d.year + 1, !.month = 1]
    ELSE [d EXCEPT !.month = d.month + 1]

\* C26: for every date and every start month m in 1..12, the fiscal year is
\* "{start}-{start + 1}" with start = year - 1 when the month is before m and
\* start = year otherwise; from one month to the next the fiscal year changes
\* exactly when the next month is m, and then by one year.
C26_FiscalYear ==
    (call # None /\ call[1].op = "_get_fiscal_year") =>
        LET d == call[1].date_obj
            m == call[1].fy_start_month
            Start(x) == IF x.month < m THEN x.year - 1 ELSE x.year
        IN  /\ call[1].result = ToString(Start(d)) \o "-" \o ToString(Start(d) + 1)
            /\ _get_fiscal_year(NextMonth(d), m)
                 = ToString(Start(NextMonth(d))) \o "-" \o ToString(Start(NextMonth(d)) + 1)
            /\ Start(NextMonth(d)) = IF NextMonth(d).month = m THEN Start(d) + 1 ELSE Start(d)

\* the month before a start month in the middle of the year
C26_Witness ==
    /\ call # None /\ call[1].op = "_get_fiscal_year"
    /\ call[1].fy_start_month = 4 /\ call[1].date_obj.month = 3
    /\ call[1].date_obj.year = 2026 /\ call[1].result = "2025-2026"

====
